---- MODULE Spec2Model ----
(***************************************************************************)
(* Model of the asynchronous HTTP image cache of native-core               *)
(* (image-cache/src/image_cache.c): the caller's API (load, remove,        *)
(* destroy), the worker thread (bootstrap, work queue, callback) and the   *)
(* request thread (load queue, request pool, completion handling, ETag     *)
(* index and its .etags file).                                             *)
(*                                                                         *)
(* Strings are sequences of one-character strings, image bodies are        *)
(* sequences of byte values.  A null char pointer is NULL; a null body     *)
(* pointer is the empty sequence (the code passes a body pointer exactly   *)
(* when its size is positive).                                             *)
(***************************************************************************)
EXTENDS Integers, Sequences, FiniteSets, TLC

\* ------------------------------------------------------------ constants
MAX_REQUESTS == 4
CACHE_MAX_SIZE == 3
CACHE_MAX_TIME == 604800
FILENAME_PREFIX_BYTES == 2
FILENAME_HASH_BYTES == 16
FILENAME_PREFIX == <<"I", "$">>
FILENAME_LENGTH == FILENAME_PREFIX_BYTES + FILENAME_HASH_BYTES * 2
ETAG_FILE == <<".", "e", "t", "a", "g", "s">>
HEX_CONV == <<"0", "1", "2", "3", "4", "5", "6", "7",
              "8", "9", "A", "B", "C", "D", "E", "F">>

\* ------------------------------------------------------------ bounds
\* calls of image_cache_load the caller makes in the pipeline specification
MaxLoads == 2
\* calls of image_cache_remove the caller makes
MaxRemoves == 1
\* calls of image_cache_load in the request-pool specification
MaxPoolLoads == 5
\* calls of image_cache_load in the shutdown (fair) specification
MaxLiveLoads == 2
\* calls of image_cache_init, the first included
MaxInitCalls == 2
\* records of a drawn .etags file
MaxRecords == 3
\* load() calls while the steps of remove() are followed one by one
MaxRaceLoads == 1
\* entries the index holds in the persist and load specification
MaxIndexEntries == 3

\* ------------------------------------------------------------ values
NULL == <<"NULL">>
NoBytes == <<>>

UrlA == <<"a">>
UrlB == <<"b">>
UrlC == <<"c">>
UrlD == <<"d">>
\* a URL with a space in it
UrlSp == <<"a", " ", "b">>
URLs == {UrlA, UrlB}
AllURLs == {UrlA, UrlB, UrlC}

EtagX == <<"x">>
EtagY == <<"y">>
ETags == {EtagX, EtagY}

Body1 == <<170, 187>>
Body2 == <<204>>
Bodies == {Body1, Body2}

\* ------------------------------------------------------------ path / hash
CharCode(ch) ==
    CASE ch = "a" -> 97
      [] ch = "b" -> 98
      [] ch = "c" -> 99
      [] ch = "d" -> 100
      [] ch = " " -> 32
      [] ch = "x" -> 120
      [] ch = "y" -> 121
      [] OTHER -> 10

RECURSIVE SumCodes(_)
SumCodes(s) == IF s = <<>> THEN 0 ELSE CharCode(Head(s)) + SumCodes(Tail(s))

\* The 128-bit hash is an opaque function of the URL bytes: here a fixed
\* table of 16 bytes per URL, distinct for the URLs of the model.
MurmurHash3_x86_128(url) ==
    [i \in 1..FILENAME_HASH_BYTES |-> (SumCodes(url) * (2 * i + 1) + 7 * i + Len(url)) % 256]

\* low nibble first, then high nibble
get_filename_from_url(url) ==
    LET result == MurmurHash3_x86_128(url)
    IN  FILENAME_PREFIX \o
        [k \in 1..(FILENAME_HASH_BYTES * 2) |->
            LET byte == result[(k + 1) \div 2]
            IN  IF k % 2 = 1 THEN HEX_CONV[(byte % 16) + 1]
                             ELSE HEX_CONV[(byte \div 16) + 1]]

FROM_HEX(ch) ==
    CASE ch = "0" -> 0  [] ch = "1" -> 1  [] ch = "2" -> 2  [] ch = "3" -> 3
      [] ch = "4" -> 4  [] ch = "5" -> 5  [] ch = "6" -> 6  [] ch = "7" -> 7
      [] ch = "8" -> 8  [] ch = "9" -> 9
      [] ch = "A" -> 10 [] ch = "B" -> 11 [] ch = "C" -> 12
      [] ch = "D" -> 13 [] ch = "E" -> 14 [] ch = "F" -> 15
      [] ch = "a" -> 10 [] ch = "b" -> 11 [] ch = "c" -> 12
      [] ch = "d" -> 13 [] ch = "e" -> 14 [] ch = "f" -> 15
      [] OTHER -> 0

\* ------------------------------------------------------------ ETag index
\* m_etag_cache is a sequence of entries in insertion order (the order in
\* which HASH_ITER visits them); an entry is [url, etag], etag NULL or a string.

\* HASH_FIND_STR: position of the entry for url, 0 when there is none.  Of
\* entries sharing a key the one added last is found.
HASH_FIND_STR(cache, url) ==
    LET hits == {i \in 1..Len(cache) : cache[i].url = url}
    IN  IF hits = {} THEN 0 ELSE CHOOSE i \in hits : \A j \in hits : j <= i

etag_add(cache, url, etag) == Append(cache, [url |-> url, etag |-> etag])

HASH_DEL(cache, i) == SubSeq(cache, 1, i - 1) \o SubSeq(cache, i + 1, Len(cache))

get_etag_for_url(cache, url) ==
    LET i == HASH_FIND_STR(cache, url)
    IN  IF i = 0 THEN NULL ELSE cache[i].etag

\* the entry deleted instead of kept without ETag
kill_etag_for_url_deleting(cache, url) ==
    LET i == HASH_FIND_STR(cache, url)
    IN  IF i = 0 THEN cache ELSE HASH_DEL(cache, i)

kill_etag_for_url(cache, url) ==
    LET i == HASH_FIND_STR(cache, url)
    IN  IF i = 0 THEN cache ELSE [cache EXCEPT ![i].etag = NULL]

\* decode with the high nibble first: the encoding's order reversed
kill_etag_for_url_hash_swapped(cache, url_hash_str) ==
    IF Len(url_hash_str) # FILENAME_HASH_BYTES * 2 THEN cache
    ELSE LET url_hash == [ii \in 1..FILENAME_HASH_BYTES |->
                            FROM_HEX(url_hash_str[2 * ii - 1]) * 16
                            + FROM_HEX(url_hash_str[2 * ii])]
             hits == {i \in 1..Len(cache) :
                        /\ cache[i].url # NULL
                        /\ MurmurHash3_x86_128(cache[i].url) = url_hash}
         IN  IF hits = {} THEN cache
             ELSE HASH_DEL(cache, CHOOSE i \in hits : \A j \in hits : i <= j)

\* removes the first entry whose URL hashes to the decoded bytes
kill_etag_for_url_hash(cache, url_hash_str) ==
    IF Len(url_hash_str) # FILENAME_HASH_BYTES * 2 THEN cache
    ELSE LET url_hash == [ii \in 1..FILENAME_HASH_BYTES |->
                            LET lo == FROM_HEX(url_hash_str[2 * ii - 1])
                                hi == FROM_HEX(url_hash_str[2 * ii])
                            IN  (hi * 16 + lo) % 256]
             hits == {i \in 1..Len(cache) :
                        /\ cache[i].url # NULL
                        /\ MurmurHash3_x86_128(cache[i].url) = url_hash}
         IN  IF hits = {} THEN cache
             ELSE HASH_DEL(cache, CHOOSE i \in hits : \A j \in hits : i <= j)

\* ------------------------------------------------------------ .etags file
RECURSIVE safe_strtoklen(_, _, _)
\* data is the file image, f a 1-based position; end is Len(data) + 1
safe_strtoklen(data, f, token) ==
    IF f >= Len(data) + 1 THEN 0
    ELSE IF data[f] = token THEN 0
    ELSE 1 + safe_strtoklen(data, f + 1, token)

RECURSIVE parse_etag_file_data(_, _, _)
parse_etag_file_data(data, f, cache) ==
    IF f >= Len(data) + 1 THEN cache
    ELSE LET url_len == safe_strtoklen(data, f, " ")
         IN  IF url_len <= 0 THEN cache
             ELSE LET etag == f + url_len + 1
                      etag_len == safe_strtoklen(data, etag, "\n")
                  IN  IF etag_len <= 0 THEN cache
                      ELSE parse_etag_file_data(data, etag + etag_len + 1,
                              etag_add(cache,
                                       SubSeq(data, f, f + url_len - 1),
                                       SubSeq(data, etag, etag + etag_len - 1)))

\* the file is read when it opens and is not empty
read_etags_from_cache(file, cache) ==
    IF Len(file) > 0 THEN parse_etag_file_data(file, 1, cache) ELSE cache

RECURSIVE write_etags_to_cache(_)
\* the text written for the index: one "URL SP ETAG LF" per entry with both
write_etags_to_cache(cache) ==
    IF cache = <<>> THEN <<>>
    ELSE LET data == Head(cache)
         IN  (IF data.etag # NULL /\ data.url # NULL
              THEN data.url \o <<" ">> \o data.etag \o <<"\n">>
              ELSE <<>>)
             \o write_etags_to_cache(Tail(cache))


\* ------------------------------------------------------------ state
VARIABLES
    files,                    \* cache directory: file name -> [bytes, age, stat_fails]
    etags_file,               \* content of the .etags file
    m_etag_cache,             \* the ETag index
    m_request_thread_running,
    m_load_items,             \* list of URLs, head first
    requestPc,                \* position of image_cache_run
    request_pool,             \* MAX_REQUESTS slots [handle, url, etag]
    request_count,
    running,                  \* handles enrolled in the multi handle and still running
    msgs,                     \* completion messages not yet read
    update_etag_cache,
    m_worker_thread_running,
    m_work_items,             \* list of work items, head first
    local_items,
    workerPc,                 \* position of worker_run
    clean_visited,            \* directory entries readdir has returned
    clean_count,
    clean_update,
    destroyPc,                \* position of image_cache_destroy
    clear_item,               \* clear_work_items: position of item in m_work_items, 0 = null
    item_frees,               \* free() calls per work item left in m_work_items
    freed_reads,              \* reads of a work item after its free()
    etag_frees,               \* free_etag_data calls per entry of m_etag_cache
    loadCalls,                \* image_cache_load calls per URL
    removeCalls,              \* image_cache_remove calls
    cbCount,                  \* callback invocations per URL
    lastCb,                   \* the image of the latest callback invocation
    lastItem,                 \* the work item the worker processed last
    evicted,                  \* file names clean_cache removed
    threads,                  \* pthread_create calls: [worker, request]
    item_log,                 \* work items: [allocs, the number allocated; processed,
                              \* those the worker has processed and freed]
    headers_slot,             \* what the storage of the start loop's local `headers`
                              \* holds: the list the last append returned
    removing                  \* position of image_cache_remove when its steps are
                              \* followed one by one: [pc, url]

vars == <<files, etags_file, m_etag_cache, m_request_thread_running, m_load_items,
          requestPc, request_pool, request_count, running, msgs,
          update_etag_cache, m_worker_thread_running, m_work_items, local_items,
          workerPc, clean_visited, clean_count, clean_update, destroyPc, clear_item,
          item_frees, freed_reads, etag_frees, loadCalls, removeCalls, cbCount,
          lastCb, lastItem, evicted, threads, item_log, headers_slot, removing>>

fsVars == <<files, etags_file, m_etag_cache>>
requestVars == <<m_request_thread_running, m_load_items, requestPc,
                 request_pool, request_count, running, msgs, update_etag_cache>>
workerVars == <<m_worker_thread_running, m_work_items, local_items, workerPc>>
cleanVars == <<clean_visited, clean_count, clean_update, evicted>>
destroyVars == <<destroyPc, clear_item, item_frees, freed_reads, etag_frees>>
callerVars == <<loadCalls, removeCalls>>
cbVars == <<cbCount, lastCb, lastItem>>

\* ------------------------------------------------------------ lists
LIST_PUSH(head, item) == <<item>> \o head
LIST_POP_item(head) == Head(head)
LIST_POP_rest(head) == Tail(head)

RECURSIVE move_work_items_twice(_, _)
\* every item pushed to the local list twice
move_work_items_twice(work, local) ==
    IF work = <<>> THEN local
    ELSE move_work_items_twice(LIST_POP_rest(work),
             LIST_PUSH(LIST_PUSH(local, LIST_POP_item(work)), LIST_POP_item(work)))

\* the queue moved as it is, its head staying the head
move_work_items_in_order(work, local) == work \o local

RECURSIVE move_work_items(_, _)
\* while (m_work_items) { LIST_POP(m_work_items, item); LIST_PUSH(local_items, item); }
move_work_items(work, local) ==
    IF work = <<>> THEN local
    ELSE move_work_items(LIST_POP_rest(work), LIST_PUSH(local, LIST_POP_item(work)))

\* etag is not a field of struct work_item: it records the ETag received
\* with the bytes, for stating properties.  id stands for the address
\* malloc returns; it is set when the item is queued.
alloc_work_item(url, bytes, request_failed, etag) ==
    [url |-> url, bytes |-> bytes, size |-> Len(bytes),
     request_failed |-> request_failed, etag |-> etag, id |-> 0]

\* the item at the address of the log's next allocation
work_item_at(item, log) == [item EXCEPT !.id = log.allocs + 1]

\* the list after queue_work_item; the signal wakes a waiting worker
queue_work_item(work, log, url, bytes, request_failed, etag) ==
    LIST_PUSH(work, work_item_at(alloc_work_item(url, bytes, request_failed, etag), log))

\* a signal that wakes nobody
worker_cond_signal_lost(pc) == pc

worker_cond_signal(pc) == IF pc = "wait" THEN "top" ELSE pc
request_cond_signal(pc) == IF pc = "wait" THEN "top" ELSE pc

\* ------------------------------------------------------------ cache files
image_exists_in_cache(fs, url) == get_filename_from_url(url) \in DOMAIN fs

remove_file(fs, name) == [n \in DOMAIN fs \ {name} |-> fs[n]]

new_file(bytes) == [bytes |-> bytes, age |-> 0, stat_fails |-> FALSE]

IsCacheFilename(filename) ==
    /\ Len(filename) >= 2
    /\ filename[1] = FILENAME_PREFIX[1]
    /\ filename[2] = FILENAME_PREFIX[2]
    /\ Len(filename) = FILENAME_LENGTH

\* the bytes callback_cached_image hands to the callback
callback_cached_image(fs, url, mmap_ok) ==
    LET path == get_filename_from_url(url)
    IN  IF path \notin DOMAIN fs THEN NoBytes
        ELSE IF Len(fs[path].bytes) > 0 /\ mmap_ok THEN fs[path].bytes
        ELSE NoBytes

\* a short write leaves the bytes written so far at the path
save_image_partial(fs, url, bytes, outcome) ==
    LET path == get_filename_from_url(url)
        written == IF outcome = "short_write" THEN SubSeq(bytes, 1, Len(bytes) - 1)
                   ELSE bytes
    IN  IF outcome = "open_fails" THEN fs
        ELSE [n \in DOMAIN fs \cup {path} |->
                 IF n = path THEN [bytes |-> written, age |-> 0, stat_fails |-> FALSE]
                 ELSE fs[n]]

\* the directory after save_image; outcome is "ok", "open_fails" or "short_write"
save_image(fs, url, bytes, outcome) ==
    LET path == get_filename_from_url(url)
    IN  CASE outcome = "open_fails" -> fs
          [] outcome = "short_write" -> remove_file(fs, path)
          [] OTHER -> [n \in DOMAIN fs \cup {path} |->
                          IF n = path THEN new_file(bytes) ELSE fs[n]]

SaveOutcomes == {"ok", "open_fails", "short_write"}


\* ------------------------------------------------------------ initial state
\* the state image_cache_init leaves: both flags set, the worker thread
\* created and not yet run, the request thread not yet created
init_state(fs, etags) ==
    /\ files = fs
    /\ etags_file = etags
    /\ m_etag_cache = <<>>
    /\ m_request_thread_running = TRUE
    /\ m_load_items = <<>>
    /\ requestPc = "none"
    /\ request_pool = [i \in 1..MAX_REQUESTS |->
                          [handle |-> i, url |-> NULL, etag |-> NULL, headers |-> <<>>]]
    /\ request_count = 0
    /\ running = {}
    /\ msgs = <<>>
    /\ update_etag_cache = FALSE
    /\ m_worker_thread_running = TRUE
    /\ m_work_items = <<>>
    /\ local_items = <<>>
    /\ workerPc = "read_etags"
    /\ clean_visited = {}
    /\ clean_count = 0
    /\ clean_update = FALSE
    /\ destroyPc = "idle"
    /\ clear_item = 0
    /\ item_frees = <<>>
    /\ freed_reads = 0
    /\ etag_frees = <<>>
    /\ loadCalls = [u \in URLs |-> 0]
    /\ removeCalls = 0
    /\ cbCount = [u \in URLs |-> 0]
    /\ lastCb = [url |-> NULL, bytes |-> NoBytes]
    /\ lastItem = alloc_work_item(NULL, NoBytes, FALSE, NULL)
    /\ evicted = {}
    /\ threads = [worker |-> 1, request |-> 0]
    /\ item_log = [allocs |-> 0, processed |-> {}]
    /\ headers_slot = <<>>
    /\ removing = [pc |-> "idle", url |-> NULL]

\* a cache directory left by an earlier run: the image of UrlA with its ETag
WarmFiles == (get_filename_from_url(UrlA) :> new_file(Body1))
WarmEtags == UrlA \o <<" ">> \o EtagX \o <<"\n">>

Init == init_state(WarmFiles, WarmEtags)

\* ------------------------------------------------------------ worker thread
worker_read_etags ==
    /\ workerPc = "read_etags"
    /\ m_etag_cache' = read_etags_from_cache(etags_file, m_etag_cache)
    /\ workerPc' = "clean_cache"
    /\ UNCHANGED <<removing, headers_slot, item_log, threads, files, etags_file, requestVars, m_worker_thread_running,
                   m_work_items, local_items, cleanVars, destroyVars, callerVars, cbVars>>

\* one entry readdir returns, in any order
clean_cache_entry ==
    /\ workerPc = "clean_cache"
    /\ \E filename \in (DOMAIN files \cup {ETAG_FILE}) \ clean_visited :
        LET expunge ==
                /\ files' = remove_file(files, filename)
                /\ m_etag_cache' = kill_etag_for_url_hash(m_etag_cache,
                        SubSeq(filename, FILENAME_PREFIX_BYTES + 1, Len(filename)))
                /\ clean_update' = TRUE
                /\ evicted' = evicted \cup {filename}
                /\ UNCHANGED clean_count
            keep(counted) ==
                /\ clean_count' = IF counted THEN clean_count + 1 ELSE clean_count
                /\ UNCHANGED <<files, m_etag_cache, clean_update, evicted>>
        IN  /\ clean_visited' = clean_visited \cup {filename}
            /\ IF ~IsCacheFilename(filename) THEN keep(FALSE)
               ELSE IF clean_count >= CACHE_MAX_SIZE THEN expunge
               ELSE IF files[filename].stat_fails THEN keep(FALSE)
               ELSE IF files[filename].age > CACHE_MAX_TIME THEN expunge
               ELSE keep(TRUE)
    /\ UNCHANGED <<removing, headers_slot, item_log, threads, etags_file, requestVars, workerVars, destroyVars, callerVars, cbVars>>

\* readdir returns no further entry
clean_cache_end ==
    /\ workerPc = "clean_cache"
    /\ (DOMAIN files \cup {ETAG_FILE}) \ clean_visited = {}
    /\ etags_file' = IF clean_update THEN write_etags_to_cache(m_etag_cache) ELSE etags_file
    /\ workerPc' = "start_request_thread"
    /\ clean_visited' = {}
    /\ clean_count' = 0
    /\ clean_update' = FALSE
    /\ UNCHANGED <<removing, headers_slot, item_log, threads, files, m_etag_cache, requestVars, m_worker_thread_running,
                   m_work_items, local_items, evicted, destroyVars, callerVars, cbVars>>

\* the request thread created waiting on m_request_cond
worker_start_request_thread_waiting ==
    /\ workerPc = "start_request_thread"
    /\ requestPc' = "wait"
    /\ threads' = [threads EXCEPT !.request = @ + 1]
    /\ workerPc' = "top"
    /\ UNCHANGED <<removing, headers_slot, item_log, fsVars, m_request_thread_running, m_load_items,
                   request_pool, request_count, running, msgs, update_etag_cache,
                   m_worker_thread_running, m_work_items, local_items,
                   cleanVars, destroyVars, callerVars, cbVars>>

worker_start_request_thread ==
    /\ workerPc = "start_request_thread"
    /\ requestPc' = "top"
    /\ threads' = [threads EXCEPT !.request = @ + 1]
    /\ workerPc' = "top"
    /\ UNCHANGED <<removing, headers_slot, item_log, fsVars, m_request_thread_running, m_load_items, 
                   request_pool, request_count, running, msgs, update_etag_cache,
                   m_worker_thread_running, m_work_items, local_items,
                   cleanVars, destroyVars, callerVars, cbVars>>

\* under m_worker_mutex: the loop test, the move of all work items to the
\* local list, and the wait or the unlock
worker_top ==
    /\ workerPc = "top"
    /\ IF ~m_worker_thread_running
       THEN /\ workerPc' = "exited"
            /\ UNCHANGED <<m_work_items, local_items>>
       ELSE /\ m_work_items' = <<>>
            /\ local_items' = move_work_items(m_work_items, local_items)
            /\ workerPc' = IF local_items' = <<>> THEN "wait" ELSE "process"
    /\ UNCHANGED <<removing, headers_slot, item_log, threads, fsVars, requestVars, m_worker_thread_running,
                   cleanVars, destroyVars, callerVars, cbVars>>

\* one item of the local list
worker_process ==
    /\ workerPc = "process"
    /\ local_items # <<>>
    /\ LET item == LIST_POP_item(local_items)
           image == item
       IN  /\ local_items' = LIST_POP_rest(local_items)
           /\ lastItem' = item
           /\ item_log' = [item_log EXCEPT !.processed = @ \cup {item.id}]
           /\ IF image.bytes = NoBytes
              THEN IF item.request_failed
                   THEN \E mmap_ok \in BOOLEAN :
                          /\ lastCb' = [url |-> image.url,
                                        bytes |-> callback_cached_image(files, image.url, mmap_ok)]
                          /\ cbCount' = [cbCount EXCEPT ![image.url] = @ + 1]
                          /\ UNCHANGED files
                   ELSE UNCHANGED <<files, cbCount, lastCb>>
              ELSE \E outcome \in SaveOutcomes :
                     /\ files' = save_image(files, image.url, image.bytes, outcome)
                     /\ lastCb' = [url |-> image.url, bytes |-> image.bytes]
                     /\ cbCount' = [cbCount EXCEPT ![image.url] = @ + 1]
    /\ workerPc' = IF local_items' = <<>> THEN "top" ELSE "process"
    /\ UNCHANGED <<removing, headers_slot, threads, etags_file, m_etag_cache, requestVars, m_worker_thread_running,
                   m_work_items, cleanVars, destroyVars, callerVars>>


\* ------------------------------------------------------------ request thread
\* the ETag a new request sends: the index's, when the image is on disk
request_etag(fs, cache, url) ==
    IF image_exists_in_cache(fs, url) THEN get_etag_for_url(cache, url) ELSE NULL

\* an If-None-Match list that is not a list: what an append to a wild
\* pointer leaves
WildHeaders == <<<<"?">>>>

\* what the local `headers` may hold when curl_slist_append(headers, ...)
\* reads it before its initialisation: null, what its storage held, or
\* anything else
Uninitialized == {"null", "slot", "wild"}

\* curl_slist_append of an If-None-Match line for etag
curl_slist_append(list, etag) ==
    IF list = WildHeaders THEN WildHeaders ELSE Append(list, etag)

\* the header list of a new request: none after curl_easy_reset when no
\* ETag is sent, else the list appended to what `headers` held
request_headers(etag, slot, uninit) ==
    IF etag = NULL THEN <<>>
    ELSE curl_slist_append(CASE uninit = "null" -> <<>>
                             [] uninit = "slot" -> slot
                             [] OTHER -> WildHeaders,
                           etag)

RECURSIVE start_requests_one_more(_, _, _, _, _, _, _, _)
\* the loop with the test request_count <= MAX_REQUESTS: one request too many
start_requests_one_more(fs, cache, items, pool, count, enrolled, slot, uninit) ==
    IF ~(count <= MAX_REQUESTS) \/ items = <<>>
    THEN [items |-> items, pool |-> pool, count |-> count, running |-> enrolled,
          slot |-> slot]
    ELSE LET load_item == LIST_POP_item(items)
             at == (count % MAX_REQUESTS) + 1
             request == pool[at]
             etag == request_etag(fs, cache, load_item)
             headers == request_headers(etag, slot, Head(uninit))
         IN  start_requests_one_more(fs, cache, LIST_POP_rest(items),
                 [pool EXCEPT ![at] =
                     [handle |-> request.handle, url |-> load_item,
                      etag |-> etag, headers |-> headers]],
                 count + 1, enrolled \cup {request.handle},
                 IF etag = NULL THEN slot ELSE headers, Tail(uninit))

RECURSIVE start_requests(_, _, _, _, _, _, _, _)
\* while (request_count < MAX_REQUESTS): pop a load item into slot
\* request_count and enroll its handle in the multi handle.  slot is what
\* the storage of `headers` holds, uninit what each reading of the
\* uninitialized `headers` yields.
start_requests(fs, cache, items, pool, count, enrolled, slot, uninit) ==
    IF ~(count < MAX_REQUESTS) \/ items = <<>>
    THEN [items |-> items, pool |-> pool, count |-> count, running |-> enrolled,
          slot |-> slot]
    ELSE LET load_item == LIST_POP_item(items)
             request == pool[count + 1]
             etag == request_etag(fs, cache, load_item)
             headers == request_headers(etag, slot, Head(uninit))
         IN  start_requests(fs, cache, LIST_POP_rest(items),
                 [pool EXCEPT ![count + 1] =
                     [handle |-> request.handle, url |-> load_item,
                      etag |-> etag, headers |-> headers]],
                 count + 1, enrolled \cup {request.handle},
                 IF etag = NULL THEN slot ELSE headers, Tail(uninit))

\* One pass of the section the thread runs holding m_request_mutex: the
\* loop test, the start of new requests, and the wait or the unlock.  The
\* thread enters it after its creation, after a wait and after the
\* completion messages.
\* how many requests the start loop of this pass can start, one more than the
\* free slots at most
StartsOfPass ==
    IF Len(m_load_items) < MAX_REQUESTS + 1 - request_count
    THEN Len(m_load_items) ELSE MAX_REQUESTS + 1 - request_count

\* the pass with the flag tested after the start loop instead of before it
request_top_test_after_start ==
    /\ requestPc = "top"
    /\ \E uninit \in [1..StartsOfPass -> Uninitialized] :
       LET started == start_requests(files, m_etag_cache, m_load_items,
                                     request_pool, request_count, running,
                                     headers_slot, uninit)
       IN  /\ m_load_items' = started.items
           /\ request_pool' = started.pool
           /\ request_count' = started.count
           /\ running' = started.running
           /\ headers_slot' = started.slot
           /\ requestPc' = IF ~m_request_thread_running THEN "exited"
                           ELSE IF 0 >= started.count THEN "wait" ELSE "io"
    /\ UNCHANGED <<removing, item_log, threads, fsVars, m_request_thread_running, msgs, update_etag_cache,
                   workerVars, cleanVars, destroyVars, callerVars, cbVars>>

request_top ==
    /\ requestPc = "top"
    /\ IF ~m_request_thread_running
       THEN /\ requestPc' = "exited"
            /\ UNCHANGED <<m_load_items, request_pool, request_count, running,
                           headers_slot>>
       ELSE \E uninit \in [1..StartsOfPass -> Uninitialized] :
            LET started == start_requests(files, m_etag_cache, m_load_items,
                                          request_pool, request_count, running,
                                          headers_slot, uninit)
            IN  /\ m_load_items' = started.items
                /\ request_pool' = started.pool
                /\ request_count' = started.count
                /\ running' = started.running
                /\ headers_slot' = started.slot
                /\ requestPc' = IF 0 >= started.count THEN "wait" ELSE "io"
    /\ UNCHANGED <<removing, item_log, threads, fsVars, m_request_thread_running, msgs, update_etag_cache,
                   workerVars, cleanVars, destroyVars, callerVars, cbVars>>

\* what a transfer ends with: result, body and the ETag its headers carry
\* (the value parse_response_headers extracts, NULL when there is none)
TransferFailed == [ok |-> FALSE, bytes |-> NoBytes, etag |-> NULL]
TransferEmpty == [ok |-> TRUE, bytes |-> NoBytes, etag |-> NULL]
TransferBody(bytes, etag) == [ok |-> TRUE, bytes |-> bytes, etag |-> etag]
Outcomes ==
    {TransferFailed, TransferEmpty,
     TransferBody(Body1, EtagX), TransferBody(Body2, EtagY), TransferBody(Body2, NULL)}

\* inside curl_multi_perform: a running transfer completes
transfer_done(handle, outcome) ==
    /\ requestPc = "io"
    /\ handle \in running
    /\ running' = running \ {handle}
    /\ msgs' = Append(msgs, [easy_handle |-> handle, result |-> outcome])
    /\ UNCHANGED <<removing, headers_slot, item_log, threads, fsVars, m_request_thread_running, m_load_items, 
                   requestPc, request_pool, request_count, update_etag_cache,
                   workerVars, cleanVars, destroyVars, callerVars, cbVars>>

\* the select loop ends: still_running differs from request_count
request_reap ==
    /\ requestPc = "io"
    /\ Cardinality(running) # request_count
    /\ requestPc' = "msgs"
    /\ update_etag_cache' = FALSE
    /\ UNCHANGED <<removing, headers_slot, item_log, threads, fsVars, m_request_thread_running, m_load_items, 
                   request_pool, request_count, running, msgs,
                   workerVars, cleanVars, destroyVars, callerVars, cbVars>>

\* the slot a completion message is about; request_count + 1 when no
\* in-flight slot holds the handle
find_request(pool, count, handle) ==
    LET hits == {idx \in 1..count : pool[idx].handle = handle}
    IN  IF hits = {} THEN count + 1 ELSE CHOOSE idx \in hits : \A j \in hits : idx <= j

\* the completed slot left where it is
swap_request_none(pool, count, idx) ==
    [pool EXCEPT ![idx] = [handle |-> pool[idx].handle, url |-> NULL, etag |-> NULL,
                           headers |-> <<>>]]

\* the completed slot is swapped with the last in-flight slot
swap_request(pool, count, idx) ==
    [pool EXCEPT ![count] = [handle |-> pool[idx].handle, url |-> NULL, etag |-> NULL,
                             headers |-> <<>>],
                 ![idx] = IF idx = count
                          THEN [handle |-> pool[idx].handle, url |-> NULL, etag |-> NULL,
                                headers |-> <<>>]
                          ELSE pool[count]]

\* the entry added when missing, its ETag never updated
etag_after_success_stale(cache, url, sent_etag, bytes, etag) ==
    IF HASH_FIND_STR(cache, url) = 0 THEN etag_add(cache, url, sent_etag) ELSE cache

\* the index after a successful transfer of url
etag_after_success(cache, url, sent_etag, bytes, etag) ==
    LET added == IF HASH_FIND_STR(cache, url) = 0
                 THEN etag_add(cache, url, sent_etag) ELSE cache
        i == HASH_FIND_STR(added, url)
    IN  IF Len(bytes) > 0 THEN [added EXCEPT ![i].etag = etag] ELSE added

\* an entry without ETag added for a URL the index does not know
etag_after_failure_adding(cache, url, sent_etag) ==
    IF HASH_FIND_STR(cache, url) = 0 THEN etag_add(cache, url, NULL) ELSE cache

\* the index after a failed transfer of url: the failure branch does not
\* touch it
etag_after_failure(cache, url, sent_etag) == cache

\* the index marked only when the response carries an ETag
etag_changed_new_only(cache, url, sent_etag, bytes, etag) ==
    Len(bytes) > 0 /\ etag # NULL

\* whether a successful transfer marks the index for writing
etag_changed(cache, url, sent_etag, bytes, etag) ==
    /\ Len(bytes) > 0
    /\ \/ etag # NULL
       \/ IF HASH_FIND_STR(cache, url) = 0 THEN sent_etag # NULL
          ELSE get_etag_for_url(cache, url) # NULL

\* every completed transfer queued as a success
work_item_for_unflagged(url, result) ==
    IF Len(result.bytes) > 0
    THEN alloc_work_item(url, result.bytes, FALSE, result.etag)
    ELSE alloc_work_item(url, NoBytes, FALSE, NULL)

\* the work item a completed transfer queues
work_item_for(url, result) ==
    IF result.ok
    THEN IF Len(result.bytes) > 0
         THEN alloc_work_item(url, result.bytes, FALSE, result.etag)
         ELSE alloc_work_item(url, NoBytes, FALSE, NULL)
    ELSE alloc_work_item(url, NoBytes, TRUE, NULL)

\* one CURLMSG_DONE message
request_handle_msg ==
    /\ requestPc = "msgs"
    /\ msgs # <<>>
    /\ LET msg == Head(msgs)
           idx == find_request(request_pool, request_count, msg.easy_handle)
           request == request_pool[idx]
       IN  /\ msgs' = Tail(msgs)
           /\ IF msg.result.ok
              THEN /\ m_etag_cache' = etag_after_success(m_etag_cache, request.url,
                                          request.etag, msg.result.bytes, msg.result.etag)
                   /\ update_etag_cache' =
                          (update_etag_cache
                           \/ etag_changed(m_etag_cache, request.url, request.etag,
                                           msg.result.bytes, msg.result.etag))
              ELSE /\ m_etag_cache' = etag_after_failure(m_etag_cache, request.url,
                                                          request.etag)
                   /\ UNCHANGED update_etag_cache
           /\ LET item == work_item_for(request.url, msg.result)
              IN  m_work_items' = queue_work_item(m_work_items, item_log, item.url,
                                      item.bytes, item.request_failed, item.etag)
           /\ item_log' = [item_log EXCEPT !.allocs = @ + 1]
           /\ workerPc' = worker_cond_signal(workerPc)
           /\ request_pool' = swap_request(request_pool, request_count, idx)
    /\ request_count' = request_count - 1
    /\ UNCHANGED <<removing, headers_slot, threads, files, etags_file, m_request_thread_running, m_load_items,
                   requestPc, running,
                   m_worker_thread_running, local_items,
                   cleanVars, destroyVars, callerVars, cbVars>>

\* no message is left: the index is written when it changed
request_msgs_end ==
    /\ requestPc = "msgs"
    /\ msgs = <<>>
    /\ etags_file' = IF update_etag_cache THEN write_etags_to_cache(m_etag_cache)
                     ELSE etags_file
    /\ update_etag_cache' = FALSE
    /\ requestPc' = "top"
    /\ UNCHANGED <<removing, headers_slot, item_log, threads, files, m_etag_cache, m_request_thread_running, m_load_items,
                   request_pool, request_count, running, msgs,
                   workerVars, cleanVars, destroyVars, callerVars, cbVars>>

\* ------------------------------------------------------------ API
RECURSIVE SumOver(_, _)
SumOver(f, S) ==
    IF S = {} THEN 0
    ELSE LET x == CHOOSE y \in S : TRUE IN f[x] + SumOver(f, S \ {x})

\* image_cache_load(url); max bounds the calls the caller makes
image_cache_load(url, max) ==
    /\ destroyPc = "idle"
    /\ SumOver(loadCalls, URLs) < max
    /\ IF image_exists_in_cache(files, url)
       THEN /\ m_work_items' = queue_work_item(m_work_items, item_log,
                                                url, NoBytes, FALSE, NULL)
            /\ item_log' = [item_log EXCEPT !.allocs = @ + 1]
            /\ workerPc' = worker_cond_signal(workerPc)
       ELSE UNCHANGED <<m_work_items, workerPc, item_log>>
    /\ m_load_items' = LIST_PUSH(m_load_items, url)
    /\ requestPc' = request_cond_signal(requestPc)
    /\ loadCalls' = [loadCalls EXCEPT ![url] = @ + 1]
    /\ UNCHANGED <<removing, headers_slot, threads, fsVars, m_request_thread_running, request_pool,
                   request_count, running, msgs, update_etag_cache,
                   m_worker_thread_running, local_items,
                   cleanVars, destroyVars, removeCalls, cbVars>>

image_cache_remove(url) ==
    /\ destroyPc = "idle"
    /\ removeCalls < MaxRemoves
    /\ removeCalls' = removeCalls + 1
    /\ IF image_exists_in_cache(files, url)
       THEN /\ files' = remove_file(files, get_filename_from_url(url))
            /\ m_etag_cache' = kill_etag_for_url(m_etag_cache, url)
            /\ etags_file' = write_etags_to_cache(m_etag_cache')
       ELSE UNCHANGED <<files, m_etag_cache, etags_file>>
    /\ UNCHANGED <<removing, headers_slot, item_log, threads, requestVars, workerVars, cleanVars, destroyVars, loadCalls, cbVars>>

\* a further call of image_cache_init with no destroy() since the first:
\* both flags are set and pthread_create starts another worker thread,
\* overwriting m_worker_thread.  The thread is counted; only the first
\* worker's run is followed.
image_cache_init ==
    /\ destroyPc = "idle"
    /\ threads.worker < MaxInitCalls
    /\ m_request_thread_running' = TRUE
    /\ m_worker_thread_running' = TRUE
    /\ threads' = [threads EXCEPT !.worker = @ + 1]
    /\ UNCHANGED <<removing, headers_slot, item_log, fsVars, m_load_items, requestPc, request_pool, request_count,
                   running, msgs, update_etag_cache, m_work_items, local_items,
                   workerPc, cleanVars, destroyVars, callerVars, cbVars>>

\* image_cache_destroy, first critical section
destroy_stop_request ==
    /\ destroyPc = "idle"
    /\ m_request_thread_running' = FALSE
    /\ requestPc' = request_cond_signal(requestPc)
    /\ destroyPc' = "stop_worker"
    /\ UNCHANGED <<removing, headers_slot, item_log, threads, fsVars, m_load_items, request_pool, request_count,
                   running, msgs, update_etag_cache, workerVars, cleanVars,
                   clear_item, item_frees, freed_reads, etag_frees, callerVars, cbVars>>

\* second critical section
destroy_stop_worker ==
    /\ destroyPc = "stop_worker"
    /\ m_worker_thread_running' = FALSE
    /\ workerPc' = worker_cond_signal(workerPc)
    /\ destroyPc' = "join_worker"
    /\ UNCHANGED <<removing, headers_slot, item_log, threads, fsVars, requestVars, m_work_items, local_items, cleanVars,
                   clear_item, item_frees, freed_reads, etag_frees, callerVars, cbVars>>

\* destroy() going on without pthread_join of the worker
destroy_join_worker_detached ==
    /\ destroyPc = "join_worker"
    /\ destroyPc' = "join_request"
    /\ UNCHANGED <<removing, headers_slot, item_log, threads, fsVars, requestVars, workerVars, cleanVars,
                   clear_item, item_frees, freed_reads, etag_frees, callerVars, cbVars>>

destroy_join_worker ==
    /\ destroyPc = "join_worker"
    /\ workerPc = "exited"
    /\ destroyPc' = "join_request"
    /\ UNCHANGED <<removing, headers_slot, item_log, threads, fsVars, requestVars, workerVars, cleanVars,
                   clear_item, item_frees, freed_reads, etag_frees, callerVars, cbVars>>

destroy_join_request ==
    /\ destroyPc = "join_request"
    /\ requestPc = "exited"
    /\ destroyPc' = "clear_cache"
    /\ UNCHANGED <<removing, headers_slot, item_log, threads, fsVars, requestVars, workerVars, cleanVars,
                   clear_item, item_frees, freed_reads, etag_frees, callerVars, cbVars>>

\* every entry is freed; no entry is deleted from the table and
\* m_etag_cache is not assigned
clear_cache ==
    /\ destroyPc = "clear_cache"
    /\ etag_frees' = [i \in 1..Len(m_etag_cache) |-> 1]
    /\ destroyPc' = "clear_work_items"
    /\ clear_item' = IF m_work_items = <<>> THEN 0 ELSE 1
    /\ item_frees' = [i \in 1..Len(m_work_items) |-> 0]
    /\ UNCHANGED <<removing, headers_slot, item_log, threads, fsVars, requestVars, workerVars, cleanVars, freed_reads,
                   callerVars, cbVars>>

\* one pass of the loop of clear_work_items: prev = item; item = item->next;
\* free_work_item(item).  A next read from a freed item is either the
\* pointer stored there before the free or null.
clear_work_items ==
    /\ destroyPc = "clear_work_items"
    /\ clear_item # 0
    /\ LET prev == clear_item
           stored == IF prev < Len(m_work_items) THEN prev + 1 ELSE 0
       IN  /\ freed_reads' = IF item_frees[prev] > 0 THEN freed_reads + 1 ELSE freed_reads
           /\ \E next \in (IF item_frees[prev] > 0 THEN {stored, 0} ELSE {stored}) :
                /\ clear_item' = next
                /\ item_frees' = IF next # 0 THEN [item_frees EXCEPT ![next] = @ + 1]
                                 ELSE item_frees
    /\ UNCHANGED <<removing, headers_slot, item_log, threads, fsVars, requestVars, workerVars, cleanVars, destroyPc, etag_frees,
                   callerVars, cbVars>>

destroy_return ==
    /\ destroyPc = "clear_work_items"
    /\ clear_item = 0
    /\ destroyPc' = "done"
    /\ UNCHANGED <<removing, headers_slot, item_log, threads, fsVars, requestVars, workerVars, cleanVars,
                   clear_item, item_frees, freed_reads, etag_frees, callerVars, cbVars>>

\* ------------------------------------------------------------ specifications
worker_run ==
    \/ worker_read_etags
    \/ clean_cache_entry
    \/ clean_cache_end
    \/ worker_start_request_thread
    \/ worker_top
    \/ worker_process

image_cache_run ==
    \/ request_top
    \/ request_reap
    \/ request_handle_msg
    \/ request_msgs_end

image_cache_destroy ==
    \/ destroy_stop_request
    \/ destroy_stop_worker
    \/ destroy_join_worker
    \/ destroy_join_request
    \/ clear_cache
    \/ clear_work_items
    \/ destroy_return

Transfers == \E handle \in 1..MAX_REQUESTS, outcome \in Outcomes : transfer_done(handle, outcome)

Next ==
    \/ \E url \in URLs : image_cache_load(url, MaxLoads)
    \/ \E url \in URLs : image_cache_remove(url)
    \/ image_cache_destroy
    \/ worker_run
    \/ image_cache_run
    \/ Transfers

Spec == Init /\ [][Next]_vars

\* The request pool under load: more load() calls than slots, transfers
\* that fail or return an empty body, no remove() and no destroy().
PoolTransfers ==
    \E handle \in 1..MAX_REQUESTS, outcome \in {TransferFailed, TransferEmpty} :
        transfer_done(handle, outcome)

NextPool ==
    \/ \E url \in {UrlB} : image_cache_load(url, MaxPoolLoads)
    \/ worker_run
    \/ image_cache_run
    \/ PoolTransfers

SpecPool == Init /\ [][NextPool]_vars

\* The bootstrap of the worker over a cache directory left by earlier runs:
\* read_etags_from_cache, then one clean_cache pass.  The directory holds
\* any subset of four cache-named files (those of UrlA, UrlB, UrlC and of
\* UrlD, which the index never knows), each with an age at or past
\* CACHE_MAX_TIME and a stat that succeeds or fails, a file that has the
\* prefix but not the length of a cache file, and .etags.
CleanNames == {get_filename_from_url(url) : url \in AllURLs \cup {UrlD}}
ShortName == FILENAME_PREFIX \o <<"0">>
CleanFileStates ==
    [bytes : {Body2}, age : {CACHE_MAX_TIME, CACHE_MAX_TIME + 1}, stat_fails : BOOLEAN]
CleanDirs ==
    UNION {[S \cup {ShortName} -> CleanFileStates] : S \in SUBSET CleanNames}
CleanEtags ==
    {UrlA \o <<" ">> \o EtagX \o <<"\n">> \o UrlB \o <<" ">> \o EtagY \o <<"\n">>
          \o UrlC \o <<" ">> \o EtagX \o <<"\n">>,
     UrlA \o <<" ">> \o EtagX \o <<"\n">>}

InitClean == \E fs \in CleanDirs, etags \in CleanEtags : init_state(fs, etags)

NextClean ==
    \/ worker_read_etags
    \/ clean_cache_entry
    \/ clean_cache_end

SpecClean == InitClean /\ [][NextClean]_vars

\* Shutdown: load() calls, transfers that fail or deliver a body, and
\* destroy() called in any state.  The threads are scheduled fairly, every
\* transfer in flight completes while the request thread is in
\* curl_multi_perform, and destroy(), once called, runs on.
LiveTransfers ==
    \E handle \in 1..MAX_REQUESTS, outcome \in {TransferFailed, TransferBody(Body2, EtagY)} :
        transfer_done(handle, outcome)

NextLive ==
    \/ \E url \in URLs : image_cache_load(url, MaxLiveLoads)
    \/ image_cache_destroy
    \/ worker_run
    \/ image_cache_run
    \/ LiveTransfers

FairSpec ==
    /\ Init
    /\ [][NextLive]_vars
    /\ WF_vars(worker_run)
    /\ WF_vars(image_cache_run)
    /\ WF_vars(LiveTransfers)
    /\ WF_vars(destroyPc # "idle" /\ image_cache_destroy)

\* Repeated initialisation: the shutdown specification's steps and further
\* calls of image_cache_init.
NextInit ==
    \/ image_cache_init
    \/ NextLive

SpecInit == Init /\ [][NextInit]_vars

\* The ETag index and its file alone: entries set as a successful transfer
\* with a body sets them, cleared as remove() clears them, the index
\* written, and the file read into the empty index of a new process.
IndexURLs == {UrlA, UrlB, UrlSp}

index_set(url, etag) ==
    /\ HASH_FIND_STR(m_etag_cache, url) # 0 \/ Len(m_etag_cache) < MaxIndexEntries
    /\ m_etag_cache' = etag_after_success(m_etag_cache, url, NULL, Body1, etag)
    /\ UNCHANGED <<removing, headers_slot, files, etags_file, requestVars, workerVars, cleanVars, destroyVars,
                   callerVars, cbVars, threads, item_log>>

index_clear(url) ==
    /\ m_etag_cache' = kill_etag_for_url(m_etag_cache, url)
    /\ UNCHANGED <<removing, headers_slot, files, etags_file, requestVars, workerVars, cleanVars, destroyVars,
                   callerVars, cbVars, threads, item_log>>

index_persist ==
    /\ etags_file' = write_etags_to_cache(m_etag_cache)
    /\ UNCHANGED <<removing, headers_slot, files, m_etag_cache, requestVars, workerVars, cleanVars, destroyVars,
                   callerVars, cbVars, threads, item_log>>

index_load ==
    /\ m_etag_cache' = read_etags_from_cache(etags_file, <<>>)
    /\ UNCHANGED <<removing, headers_slot, files, etags_file, requestVars, workerVars, cleanVars, destroyVars,
                   callerVars, cbVars, threads, item_log>>

InitIndex == init_state(<<>>, <<>>)

NextIndex ==
    \/ \E url \in IndexURLs, etag \in ETags \cup {NULL} : index_set(url, etag)
    \/ \E url \in IndexURLs : index_clear(url)
    \/ index_persist
    \/ index_load

SpecIndex == InitIndex /\ [][NextIndex]_vars

\* --- the bootstrap read over .etags files of up to MaxRecords records, some
\* of them with a zero-length URL or ETag
FileRecords == [url : {<<>>, UrlA, UrlB}, etag : {<<>>, EtagX}]

FileRecordSeqs == UNION {[1..n -> FileRecords] : n \in 1..MaxRecords}

\* one record as the file holds it: URL, a space, ETag, a line feed
record_text(data) == data.url \o <<" ">> \o data.etag \o <<"\n">>

RECURSIVE file_text(_)
file_text(records) ==
    IF records = <<>> THEN <<>>
    ELSE record_text(Head(records)) \o file_text(Tail(records))

InitParse == \E records \in FileRecordSeqs : init_state(<<>>, file_text(records))

NextParse == worker_read_etags

SpecParse == InitParse /\ [][NextParse]_vars

\* --- image_cache_remove followed step by step.  It takes no lock: the
\* caller's thread runs it while the worker and the request thread run.
\* image_exists_in_cache and remove(path)
remove_unlink(url) ==
    /\ destroyPc = "idle"
    /\ removing.pc = "idle"
    /\ removeCalls < MaxRemoves
    /\ removeCalls' = removeCalls + 1
    /\ IF image_exists_in_cache(files, url)
       THEN /\ files' = remove_file(files, get_filename_from_url(url))
            /\ removing' = [pc |-> "kill_etag", url |-> url]
       ELSE UNCHANGED <<files, removing>>
    /\ UNCHANGED <<headers_slot, item_log, threads, etags_file, m_etag_cache, requestVars,
                   workerVars, cleanVars, destroyVars, loadCalls, cbVars>>

\* kill_etag_for_url(url)
remove_kill_etag ==
    /\ removing.pc = "kill_etag"
    /\ m_etag_cache' = kill_etag_for_url(m_etag_cache, removing.url)
    /\ removing' = [removing EXCEPT !.pc = "write_etags"]
    /\ UNCHANGED <<headers_slot, item_log, threads, files, etags_file, requestVars,
                   workerVars, cleanVars, destroyVars, callerVars, cbVars>>

\* write_etags_to_cache() and the return
remove_write_etags ==
    /\ removing.pc = "write_etags"
    /\ etags_file' = write_etags_to_cache(m_etag_cache)
    /\ removing' = [pc |-> "idle", url |-> NULL]
    /\ UNCHANGED <<headers_slot, item_log, threads, files, m_etag_cache, requestVars,
                   workerVars, cleanVars, destroyVars, callerVars, cbVars>>

\* the caller's thread calls load() only between its other calls
caller_load(url) ==
    /\ removing.pc = "idle"
    /\ image_cache_load(url, MaxRaceLoads)

NextRace ==
    \/ \E url \in URLs : caller_load(url)
    \/ \E url \in URLs : remove_unlink(url)
    \/ remove_kill_etag
    \/ remove_write_etags
    \/ worker_run
    \/ image_cache_run
    \/ Transfers

SpecRace == Init /\ [][NextRace]_vars

\* ------------------------------------------------------------ properties
\* what callback_cached_image finds on disk for url: its content, or
\* zero-length bytes when the file is absent
DiskBytes(fs, url) ==
    IF get_filename_from_url(url) \in DOMAIN fs
    THEN fs[get_filename_from_url(url)].bytes ELSE NoBytes

\* the records of a .etags text
EtagRecords(text) ==
    LET parsed == parse_etag_file_data(text, 1, <<>>)
    IN  {parsed[i] : i \in 1..Len(parsed)}

\* the worker processes the head of its local list in this step
WorkerTakes ==
    /\ workerPc = "process"
    /\ local_items # <<>>
    /\ local_items' = Tail(local_items)

\* the request thread handles the first completion message in this step
RequestReads ==
    /\ requestPc = "msgs"
    /\ msgs # <<>>
    /\ msgs' = Tail(msgs)

\* nothing of url is pending: no load item, no request in flight, no work item
Settled(url) ==
    /\ \A i \in 1..Len(m_load_items) : m_load_items[i] # url
    /\ \A i \in 1..request_count : request_pool[i].url # url
    /\ \A i \in 1..Len(m_work_items) : m_work_items[i].url # url
    /\ \A i \in 1..Len(local_items) : local_items[i].url # url

\* C1: for every URL passed to load(), once its fetch has completed and its
\* work items are processed (no destroy and no remove issued), the callback
\* has been invoked at least once and at most twice per load() call of that
\* URL.
C1_CallbackOnceOrTwice ==
    \A url \in URLs :
        (destroyPc = "idle" /\ removeCalls = 0 /\ Settled(url))
            => /\ cbCount[url] >= loadCalls[url]
               /\ cbCount[url] <= 2 * loadCalls[url]

\* C2: when the worker processes a work item without bytes and with
\* request_failed = false, the callback is invoked once with the content of
\* the URL's cache file.
C2_NoBytesNotFailedServesDisk ==
    [][(WorkerTakes /\ Head(local_items).bytes = NoBytes
                    /\ ~Head(local_items).request_failed)
          => LET item == Head(local_items)
             IN  /\ cbCount' = [cbCount EXCEPT ![item.url] = @ + 1]
                 /\ lastCb' = [url |-> item.url, bytes |-> DiskBytes(files, item.url)]]_vars

\* the save of item's bytes did not fail in this step
SavedWithoutError(item) ==
    /\ files' # save_image(files, item.url, item.bytes, "open_fails")
    /\ files' # save_image(files, item.url, item.bytes, "short_write")

QueuesFailedItem(msg) ==
    /\ Len(m_work_items') = Len(m_work_items) + 1
    /\ Tail(m_work_items') = m_work_items
    /\ Head(m_work_items').bytes = NoBytes
    /\ Head(m_work_items').size = 0
    /\ Head(m_work_items').request_failed
    /\ \E i \in 1..request_count :
         /\ request_pool[i].handle = msg.easy_handle
         /\ Head(m_work_items').url = request_pool[i].url
    /\ files' = files

\* the worker invokes the callback once for item, with the file's content
\* or with zero-length bytes, and touches no cache file
ServesFailedItem(item) ==
    /\ cbCount' = [cbCount EXCEPT ![item.url] = @ + 1]
    /\ lastCb'.url = item.url
    /\ IF get_filename_from_url(item.url) \in DOMAIN files
       THEN lastCb'.bytes \in {files[get_filename_from_url(item.url)].bytes, NoBytes}
       ELSE lastCb'.bytes = NoBytes
    /\ files' = files

\* C4: a failed transfer queues exactly one work item {url, no bytes,
\* request_failed}; processing it invokes the callback exactly once, with the
\* cache file's content when the file exists and can be mapped and with
\* zero-length bytes otherwise; neither step creates or changes a cache file.
C4_FailedTransferServesDisk ==
    [][/\ (RequestReads /\ ~Head(msgs).result.ok) => QueuesFailedItem(Head(msgs))
       /\ (WorkerTakes /\ Head(local_items).request_failed)
             => ServesFailedItem(Head(local_items))]_vars

\* C4 witness: the worker has processed the work item of a failed transfer
\* of a URL whose cache file exists, and served the file's content
C4_Witness ==
    /\ lastItem.request_failed
    /\ lastItem.url = UrlA
    /\ lastCb = [url |-> UrlA, bytes |-> Body1]
    /\ cbCount[UrlA] = 1


\* the index entries that carry an ETag, as records of the .etags file
IndexRecords(cache) ==
    {cache[i] : i \in {j \in 1..Len(cache) : cache[j].etag # NULL /\ cache[j].url # NULL}}

RemoveEffect(url) ==
    IF image_exists_in_cache(files, url)
    THEN /\ ~image_exists_in_cache(files', url)
         /\ (HASH_FIND_STR(m_etag_cache, url) # 0) = (HASH_FIND_STR(m_etag_cache', url) # 0)
         /\ Len(m_etag_cache') = Len(m_etag_cache)
         /\ get_etag_for_url(m_etag_cache', url) = NULL
         /\ \A rec \in EtagRecords(etags_file') : rec.url # url
    ELSE UNCHANGED <<m_etag_cache, etags_file, files>>

C9_DestroyFreesEverything ==
    destroyPc = "done"
        => /\ \A i \in 1..Len(item_frees) : item_frees[i] = 1
           /\ freed_reads = 0
           /\ \A i \in 1..Len(etag_frees) : etag_frees[i] = 1
           /\ m_etag_cache = <<>>
           /\ workerPc = "exited" /\ requestPc = "exited"


\* the handles enrolled in the multi handle: those of the slots in flight
Enrolled == {request_pool[i].handle : i \in 1..request_count}

\* C5: in every reachable state the number of transfers in flight
\* (request_count, the handles enrolled in the multi handle) is between 0
\* and MAX_REQUESTS.
C5_InFlightBounded ==
    /\ request_count \in 0..MAX_REQUESTS
    /\ Cardinality(Enrolled) = request_count
    /\ running \subseteq Enrolled
    /\ Len(msgs) + Cardinality(running) = request_count

\* C5 witness: every slot is in flight and a further load item waits
C5_Witness ==
    /\ request_count = MAX_REQUESTS
    /\ m_load_items # <<>>

\* the cache-named files of a directory
CacheFiles(fs) == {n \in DOMAIN fs : IsCacheFilename(n)}

\* C6: after a clean_cache pass over any directory content at most
\* CACHE_MAX_SIZE cache-named files survive and none of them has an age
\* greater than CACHE_MAX_TIME, also when the stat of an entry fails.
C6_CleanCacheBounds ==
    workerPc = "start_request_thread"
        => /\ Cardinality(CacheFiles(files)) <= CACHE_MAX_SIZE
           /\ \A n \in CacheFiles(files) : files[n].age <= CACHE_MAX_TIME

C10_DestroyTerminates ==
    (destroyPc # "idle")
        ~> (destroyPc = "done" /\ workerPc = "exited" /\ requestPc = "exited")

\* C10 witness: destroy() has returned, both threads have terminated, and
\* the request thread left with a transfer still in flight
C10_Witness ==
    /\ destroyPc = "done"
    /\ workerPc = "exited"
    /\ requestPc = "exited"
    /\ request_count > 0
    /\ cbCount[UrlB] > 0

\* C11: a second init() without an intervening destroy() leaves the system
\* as one call does: exactly one worker thread and at most one request
\* thread have been started.
C11_InitIdempotent ==
    /\ threads.worker = 1
    /\ threads.request <= 1

\* the addresses of the work items of a list
ItemIds(list) == {list[i].id : i \in 1..Len(list)}

\* C12: every work item queued is taken from the work queue and processed
\* by the worker at most once, and exactly once when no destroy() is issued
\* (a worker that waits has processed every item queued); no work item is
\* in both the shared queue and the worker's local list.
C12_WorkItemsProcessedOnce ==
    /\ Cardinality(ItemIds(m_work_items)) = Len(m_work_items)
    /\ Cardinality(ItemIds(local_items)) = Len(local_items)
    /\ ItemIds(m_work_items) \cap ItemIds(local_items) = {}
    /\ ItemIds(m_work_items) \cap item_log.processed = {}
    /\ ItemIds(local_items) \cap item_log.processed = {}
    /\ destroyPc = "idle"
          => /\ ItemIds(m_work_items) \cup ItemIds(local_items) \cup item_log.processed
                    = 1..item_log.allocs
             /\ workerPc = "wait" => item_log.processed = 1..item_log.allocs

\* C12 witness: with no destroy() issued two items are processed, one is
\* in the local list and one, queued after the worker took its batch, is in
\* the shared queue
C12_Witness ==
    /\ destroyPc = "idle"
    /\ Cardinality(item_log.processed) = 2
    /\ Len(local_items) = 1
    /\ Len(m_work_items) = 1

\* C13: the file a persist writes, when loaded, yields every (url, etag)
\* pair of the index whose ETag is not NULL at that persist, and no entry
\* for a URL whose ETag is NULL then.
C13_PersistRoundTrip ==
    [][index_persist => EtagRecords(etags_file') = IndexRecords(m_etag_cache)]_vars

\* the URL of the request the first completion message is about
MsgUrl == request_pool[find_request(request_pool, request_count, Head(msgs).easy_handle)].url

\* C14: on a transport failure for a URL that has no index entry the
\* request thread adds an entry for the URL, without ETag.
C14_FailureAddsEntry ==
    [][(RequestReads /\ ~Head(msgs).result.ok /\ HASH_FIND_STR(m_etag_cache, MsgUrl) = 0)
          => /\ HASH_FIND_STR(m_etag_cache', MsgUrl) # 0
             /\ get_etag_for_url(m_etag_cache', MsgUrl) = NULL]_vars

\* C14 (amended): a transport failure leaves the index and its dirty mark
\* as they are, so a URL without entry stays without one; a successful
\* transfer is what adds the entry of a URL the index does not know, with
\* the ETag the request sent (NULL when the URL was not cached) unless the
\* response's body replaces it.
C14_FailureLeavesIndex ==
    [][/\ (RequestReads /\ ~Head(msgs).result.ok)
             => /\ m_etag_cache' = m_etag_cache
                /\ update_etag_cache' = update_etag_cache
       /\ (RequestReads /\ Head(msgs).result.ok /\ HASH_FIND_STR(m_etag_cache, MsgUrl) = 0)
             => /\ HASH_FIND_STR(m_etag_cache', MsgUrl) = Len(m_etag_cache) + 1
                /\ Head(msgs).result.bytes = NoBytes
                      => get_etag_for_url(m_etag_cache', MsgUrl)
                            = request_pool[find_request(request_pool, request_count,
                                                        Head(msgs).easy_handle)].etag]_vars

\* C14 witness: the worker has served the failed transfer of UrlB, loaded
\* once, and the index has no entry for UrlB
C14_Witness ==
    /\ lastItem.request_failed
    /\ lastItem.url = UrlB
    /\ loadCalls[UrlB] = 1
    /\ cbCount[UrlB] = 1
    /\ HASH_FIND_STR(m_etag_cache, UrlB) = 0
    /\ HASH_FIND_STR(m_etag_cache, UrlA) # 0

\* the save of item's bytes failed in this step: the file could not be
\* opened, or the write was short
SaveFailed(item) ==
    \/ files' = save_image(files, item.url, item.bytes, "open_fails")
    \/ files' = save_image(files, item.url, item.bytes, "short_write")

\* the save of item's bytes wrote all the bytes in this step
SaveSucceeded(item) ==
    /\ get_filename_from_url(item.url) \in DOMAIN files'
    /\ files'[get_filename_from_url(item.url)].bytes = item.bytes

RequestStarts ==
    /\ requestPc = "top"
    /\ request_count' > request_count

\* the URLs of the requests started in this step, in the order of their
\* slots, which is the order of their curl_multi_add_handle calls
StartedUrls ==
    [i \in 1..(request_count' - request_count) |-> request_pool'[request_count + i].url]

\* C16: the pending load items form a FIFO: the request thread starts
\* transfers in the order in which load() queued them (m_load_items holds
\* the item queued last at its head), and the items it leaves pending are
\* those queued last.
C16_LoadItemsFifo ==
    [][RequestStarts
          => LET n == request_count' - request_count
             IN  /\ \A i \in 1..n :
                       StartedUrls[i] = m_load_items[Len(m_load_items) - i + 1]
                 /\ m_load_items' = SubSeq(m_load_items, 1, Len(m_load_items) - n)]_vars

\* the worker, holding its lock, moves the queued items in this step
WorkerMoves ==
    /\ workerPc = "top"
    /\ m_worker_thread_running
    /\ workerPc' \in {"wait", "process"}

\* every queued item is moved to the local list and the shared queue is
\* empty when the lock is released
MovesAll ==
    /\ m_work_items' = <<>>
    /\ Len(local_items') = Len(m_work_items) + Len(local_items)
    /\ ItemIds(local_items') = ItemIds(m_work_items) \cup ItemIds(local_items)

\* C17: on each worker iteration all queued work items are moved under the
\* worker lock into the local list, and the batch is processed in LIFO
\* order: the item processed is the one queued last of those in the batch.
C17_BatchLifo ==
    [][/\ WorkerMoves => MovesAll
       /\ WorkerTakes
             => \A i \in 1..Len(local_items) : local_items[i].id <= Head(local_items).id]_vars

\* C17 (amended): all queued work items are moved under the worker lock,
\* which reverses the queue, and the batch is processed in the order in
\* which its items were queued: the item processed is the one queued first
\* of those in the batch.
C17_BatchFifo ==
    [][/\ WorkerMoves => MovesAll
       /\ WorkerTakes
             => \A i \in 1..Len(local_items) : Head(local_items).id <= local_items[i].id]_vars

\* C17 witness: of a batch of two the worker has processed the item queued
\* first and is about to process the one queued second
C17_Witness ==
    /\ workerPc = "process"
    /\ lastItem.id = 1
    /\ Len(local_items) = 1
    /\ Head(local_items).id = 2
    /\ item_log.processed = {1}

StartedSlots == (request_count + 1)..request_count'

\* C19: a request the start loop starts carries exactly one If-None-Match
\* line, holding the index's ETag for its URL, when the URL's cache file
\* exists and the index holds an ETag for it at that moment, and carries no
\* such line otherwise; a URL whose cache file is absent is fetched
\* unconditionally.
C19_IfNoneMatchExact ==
    [][RequestStarts =>
        \A i \in StartedSlots :
            LET url == request_pool'[i].url
                etag == get_etag_for_url(m_etag_cache, url)
            IN  request_pool'[i].headers =
                    IF image_exists_in_cache(files, url) /\ etag # NULL
                    THEN <<etag>> ELSE <<>>]_vars

\* the record is a well-formed "URL SP ETAG LF" one
WellFormed(data) == data.url # <<>> /\ data.etag # <<>>

\* C20: once the worker has read the .etags file, every well-formed record
\* of the file is in the index, whatever records with a zero-length URL or
\* a zero-length ETag stand before it.
C20_SkipsAndContinues ==
    workerPc # "read_etags" =>
        \A records \in FileRecordSeqs :
            etags_file = file_text(records) =>
                \A i \in DOMAIN records :
                    WellFormed(records[i]) =>
                        \E k \in DOMAIN m_etag_cache :
                            /\ m_etag_cache[k].url = records[i].url
                            /\ m_etag_cache[k].etag = records[i].etag

\* C21: in a state where m_request_thread_running is cleared, no step
\* dequeues a load item or enrolls a handle: the list of load items does
\* not shrink, the count of requests in flight does not grow and no handle
\* joins the running ones.
C21_NoStartAfterStop ==
    [][~m_request_thread_running =>
          /\ Len(m_load_items') >= Len(m_load_items)
          /\ request_count' <= request_count
          /\ running' \subseteq running]_vars

\* the request thread has left its loop with load items pending and every
\* slot free
C21_Witness ==
    /\ ~m_request_thread_running
    /\ requestPc = "exited"
    /\ m_load_items # <<>>
    /\ request_count = 0

\* the worker is in its bootstrap: read_etags_from_cache, clean_cache, or
\* about to call pthread_create
Bootstrap == workerPc \in {"read_etags", "clean_cache", "start_request_thread"}

\* C22: while the worker is in its bootstrap no request thread exists, and
\* load items queued before the request thread exists are dequeued by it
\* unless destroy() stops it first.
C22_FetchAfterBootstrap ==
    /\ [](Bootstrap => (requestPc = "none" /\ threads.request = 0))
    /\ ((requestPc = "none" /\ m_load_items # <<>>)
            ~> (m_load_items = <<>> \/ ~m_request_thread_running))

\* the bootstrap is over with the index loaded, two load items are queued
\* and the request thread is about to be created
C22_Witness ==
    /\ workerPc = "start_request_thread"
    /\ requestPc = "none"
    /\ m_etag_cache # <<>>
    /\ Len(m_load_items) = 2
    /\ m_request_thread_running

\* the worker is in its bootstrap accesses of the index: the file is read
\* and the clean_cache pass, with its write of .etags, has not returned
WorkerInIndex == workerPc = "clean_cache"

\* the request thread is handling completion messages, up to its write of
\* .etags
RequestInIndex == requestPc = "msgs"

\* remove() is between its unlink and its return
RemoveInIndex == removing.pc \in {"kill_etag", "write_etags"}

\* C23: in no reachable state are two of the worker's bootstrap, the request
\* thread's completion handling and remove() inside their accesses of the
\* ETag index and the .etags file.
C23_IndexSerialized ==
    /\ ~(WorkerInIndex /\ RequestInIndex)
    /\ ~(WorkerInIndex /\ RemoveInIndex)
    /\ ~(RequestInIndex /\ RemoveInIndex)

\* the bodies a response carries together with the ETag etag; the body the
\* earlier run cached belongs to the ETag it left in .etags
ReceivedWith(etag) ==
    {outcome.bytes : outcome \in {o \in Outcomes : o.ok /\ o.etag = etag}}

\* C24: whenever the index holds an ETag for a URL and the URL's cache file
\* exists, the file holds the body that was received with that ETag.
C24_EtagMatchesBody ==
    \A url \in URLs :
        LET etag == get_etag_for_url(m_etag_cache, url)
        IN  (etag # NULL /\ image_exists_in_cache(files, url))
                => DiskBytes(files, url) \in ReceivedWith(etag)

\* a step that invokes the image callback
CallbackInvoked == cbCount' # cbCount \/ lastCb' # lastCb

\* C25: the image callback is invoked only in a step of the one worker
\* thread, processing an item of its local list, and in no step after
\* destroy() has joined the worker, whatever work items are queued by then.
C25_CallbackOnlyByLiveWorker ==
    [][CallbackInvoked =>
          /\ workerPc = "process"
          /\ threads.worker = 1
          /\ destroyPc \notin {"join_request", "clear_cache", "clear_work_items", "done"}]_vars

\* destroy() has returned after a callback, with work items the request
\* thread queued and the worker never took
C25_Witness ==
    /\ destroyPc = "done"
    /\ workerPc = "exited"
    /\ m_work_items # <<>>
    /\ \E url \in URLs : cbCount[url] > 0

\* the handles of the slots 0..request_count-1
InFlightHandles == {request_pool[i].handle : i \in 1..request_count}

\* the handles the multi handle holds: running, or done with the message
\* not yet read
MultiHandles == running \cup {msgs[k].easy_handle : k \in DOMAIN msgs}

\* C26: the pool always holds the same MAX_REQUESTS slots, each once; the
\* requests in flight are exactly the slots 0..request_count-1; and every
\* completion message is about exactly one of those slots, so that the
\* lookup ends below request_count.
C26_RequestPoolInvariant ==
    /\ DOMAIN request_pool = 1..MAX_REQUESTS
    /\ {request_pool[i].handle : i \in 1..MAX_REQUESTS} = 1..MAX_REQUESTS
    /\ request_count \in 0..MAX_REQUESTS
    /\ InFlightHandles = MultiHandles
    /\ \A i \in 1..MAX_REQUESTS : (request_pool[i].url # NULL) <=> (i <= request_count)
    /\ \A k \in DOMAIN msgs :
          /\ Cardinality({i \in 1..request_count :
                              request_pool[i].handle = msgs[k].easy_handle}) = 1
          /\ find_request(request_pool, request_count, msgs[k].easy_handle) <= request_count
          /\ \A j \in DOMAIN msgs : msgs[j].easy_handle = msgs[k].easy_handle => j = k

\* all slots are in flight, the pool is no longer in its initial order and
\* two completion messages wait to be read
C26_Witness ==
    /\ request_count = MAX_REQUESTS
    /\ request_pool[1].handle # 1
    /\ Len(msgs) = 2
    /\ requestPc = "msgs"

====
